---- MODULE Spec2Model ----
(***************************************************************************)
(* A model of the chess rules engine of src/src/chess.rs: the board with   *)
(* its occupancy index and king-location cache, pseudo-legal move          *)
(* generation, check detection, legality filtering, castling generation    *)
(* and move application (GameState::make_move); of the notation functions  *)
(* (square names, move text); and of the move policy of src/src/ai.rs.     *)
(*                                                                         *)
(* Coordinates are <<rank, file>> pairs, zero-based, as in the source.     *)
(* Option<Piece> is a record whose None value is the record None; an       *)
(* Option<(i8, i8)> is the pair or the empty tuple NoSquare; an            *)
(* Option<PieceType> is the kind's name or "None".                         *)
(***************************************************************************)
EXTENDS Integers, Sequences, FiniteSets, TLC

\* ------------------------------------------------------------------------
\* Side, PieceType, Piece, Move
\* ------------------------------------------------------------------------

White == "White"
Black == "Black"
Sides == {White, Black}

other(side) == IF side = White THEN Black ELSE White

Pawn == "Pawn"
Knight == "Knight"
Bishop == "Bishop"
Rook == "Rook"
Queen == "Queen"
King == "King"

None == [side |-> "None", piece_type |-> "None"]
Piece(side, piece_type) == [side |-> side, piece_type |-> piece_type]

NoPromo == "None"
NoSquare == << >>

Move_new(from, to) == [from |-> from, to |-> to, promo |-> NoPromo]
Move_new_with_promo(from, to, promo) == [from |-> from, to |-> to, promo |-> promo]

\* ------------------------------------------------------------------------
\* Square names: a name is the sequence of its bytes (ASCII codes).
\* ------------------------------------------------------------------------

\* `x as i8` for a byte x, `x as u8` for an i8 x
as_i8(x) == IF x >= 128 THEN x - 256 ELSE x
as_u8(x) == x % 256

\* The value i8 and u8 arithmetic wraps to when overflow is not checked.
wrap_i8(x) == ((x + 128) % 256) - 128
wrap_u8(x) == x % 256

extract_file_from_name(square_name) == wrap_i8(as_i8(square_name[1]) - 97)
extract_rank_from_name(square_name) == wrap_i8(wrap_i8(as_i8(square_name[2]) - 48) - 1)
coordinates_from_name(square_name) ==
    << extract_rank_from_name(square_name), extract_file_from_name(square_name) >>

\* Indexing as_bytes() beyond the name's length panics; so does an i8
\* subtraction that overflows, in a build that checks overflow.
extract_file_from_name_panics(square_name, overflow_checks) ==
    \/ Len(square_name) < 1
    \/ overflow_checks /\ as_i8(square_name[1]) - 97 < -128

extract_rank_from_name_panics(square_name, overflow_checks) ==
    \/ Len(square_name) < 2
    \/ overflow_checks /\ as_i8(square_name[2]) - 48 - 1 < -128

coordinates_from_name_panics(square_name, overflow_checks) ==
    \/ extract_rank_from_name_panics(square_name, overflow_checks)
    \/ extract_file_from_name_panics(square_name, overflow_checks)

RECURSIVE Digits(_)
\* the decimal digits of a natural number, as bytes
Digits(n) == IF n < 10 THEN << 48 + n >> ELSE Digits(n \div 10) \o << 48 + (n % 10) >>

\* `{}` of an i8: a '-' (byte 45) before the digits of a negative number
Display_i8(n) == IF n < 0 THEN << 45 >> \o Digits(-n) ELSE Digits(n)

\* `{}` of `x as char` for a u8 x: the UTF-8 bytes of the character U+00xx
Display_char(x) == IF x < 128 THEN << x >> ELSE << 192 + (x \div 64), 128 + (x % 64) >>

\* Mutant of name_from_coordinates: the rank is written zero-based.
name_from_coordinates_ZeroBasedRank(coordinates) ==
    Display_char(wrap_u8(as_u8(coordinates[2]) + 97)) \o Display_i8(coordinates[1])

name_from_coordinates(coordinates) ==
    Display_char(wrap_u8(as_u8(coordinates[2]) + 97))
    \o Display_i8(wrap_i8(coordinates[1] + 1))

name_from_coordinates_panics(coordinates, overflow_checks) ==
    overflow_checks /\ (as_u8(coordinates[2]) + 97 > 255 \/ coordinates[1] + 1 > 127)

within_bounds(coordinates) ==
    /\ coordinates[1] >= 0 /\ coordinates[1] < 8
    /\ coordinates[2] >= 0 /\ coordinates[2] < 8

\* The byte of a file letter, to write square names in the definitions below.
FileByte(letter) ==
    CASE letter = "a" -> 97 [] letter = "b" -> 98 [] letter = "c" -> 99
      [] letter = "d" -> 100 [] letter = "e" -> 101 [] letter = "f" -> 102
      [] letter = "g" -> 103 [] letter = "h" -> 104

\* The name of a square as bytes: Name("e", 4) is "e4".
Name(letter, digit) == << FileByte(letter), 48 + digit >>
Sq(letter, digit) == coordinates_from_name(Name(letter, digit))

RECURSIVE split(_, _)
\* str::split(separator): the parts of the string around each separator byte
split(string, separator) ==
    IF \E i \in 1 .. Len(string) : string[i] = separator
    THEN LET i == CHOOSE k \in 1 .. Len(string) :
                     string[k] = separator /\ \A j \in 1 .. k - 1 : string[j] # separator
         IN  << SubSeq(string, 1, i - 1) >>
             \o split(SubSeq(string, i + 1, Len(string)), separator)
    ELSE << string >>

\* Move::from_str: the first two parts around '-' (byte 45) are the names of
\* from and to; the promotion field is never reconstructed.
Move_from_str(string) ==
    LET parts == split(string, 45)
    IN  [from |-> coordinates_from_name(parts[1]),
         to |-> coordinates_from_name(parts[2]),
         promo |-> NoPromo]

\* Move::from_str panics: a name that cannot be read, or no second part
\* (expect("Should have been a valid move.")).
Move_from_str_panics(string, overflow_checks) ==
    LET parts == split(string, 45)
    IN  \/ coordinates_from_name_panics(parts[1], overflow_checks)
        \/ Len(parts) < 2
        \/ coordinates_from_name_panics(parts[2], overflow_checks)

\* PieceType::to_char, as a byte
to_char(piece_type) ==
    CASE piece_type = "Pawn" -> 112 [] piece_type = "Knight" -> 110
      [] piece_type = "Bishop" -> 98 [] piece_type = "Rook" -> 114
      [] piece_type = "Queen" -> 113 [] piece_type = "King" -> 107

\* Mutant of Move_to_string: the two names are written in the other order.
Move_to_string_ToFirst(m) ==
    IF m.promo # NoPromo
    THEN name_from_coordinates(m.to) \o << 45 >> \o name_from_coordinates(m.from)
         \o << 61, to_char(m.promo) >>
    ELSE name_from_coordinates(m.to) \o << 45 >> \o name_from_coordinates(m.from)

\* Move::to_string: "<from>-<to>", with "=<kind>" (byte 61) for a promotion
Move_to_string(m) ==
    IF m.promo # NoPromo
    THEN name_from_coordinates(m.from) \o << 45 >> \o name_from_coordinates(m.to)
         \o << 61, to_char(m.promo) >>
    ELSE name_from_coordinates(m.from) \o << 45 >> \o name_from_coordinates(m.to)

Move_to_string_panics(m, overflow_checks) ==
    \/ name_from_coordinates_panics(m.from, overflow_checks)
    \/ name_from_coordinates_panics(m.to, overflow_checks)

\* The move whose text is "<l1><d1>-<l2><d2>".
Mv(l1, d1, l2, d2) == Move_from_str(Name(l1, d1) \o << 45 >> \o Name(l2, d2))

\* ------------------------------------------------------------------------
\* Board
\* ------------------------------------------------------------------------

Coordinate == (0 .. 7) \X (0 .. 7)

new_blank ==
    [squares |-> [r \in 1 .. 8 |-> [f \in 1 .. 8 |-> None]],
     sides |-> [s \in Sides |-> {}],
     white_king_location |-> << -1, -1 >>,
     black_king_location |-> << -1, -1 >>]

\* squares[rank][file]; the model's tuples are 1-based. An index outside the
\* grid panics in the source (see the ...Panics predicates); here it reads None.
piece_at(board, coordinates) ==
    IF within_bounds(coordinates)
    THEN board.squares[coordinates[1] + 1][coordinates[2] + 1]
    ELSE None

king_location(board, side) ==
    IF side = White THEN board.white_king_location ELSE board.black_king_location

\* Mutant of place_piece: both kings are recorded in white_king_location.
place_piece_WhiteCacheOnly(board, piece, coordinates) ==
    LET b1 == [board EXCEPT
                 !.sides[piece.side] = @ \cup {coordinates},
                 !.squares[coordinates[1] + 1][coordinates[2] + 1] = piece]
    IN  IF piece.piece_type = King
        THEN [b1 EXCEPT !.white_king_location = coordinates]
        ELSE b1

place_piece(board, piece, coordinates) ==
    LET b1 == [board EXCEPT
                 !.sides[piece.side] = @ \cup {coordinates},
                 !.squares[coordinates[1] + 1][coordinates[2] + 1] = piece]
    IN  IF piece.piece_type = King
        THEN IF piece.side = White
             THEN [b1 EXCEPT !.white_king_location = coordinates]
             ELSE [b1 EXCEPT !.black_king_location = coordinates]
        ELSE b1

\* Mutant of remove_piece: the square is emptied, the rosters are not touched.
remove_piece_GridOnly(board, coordinates) ==
    [board EXCEPT !.squares[coordinates[1] + 1][coordinates[2] + 1] = None]

remove_piece(board, coordinates) ==
    [board EXCEPT
       !.sides = [s \in Sides |-> @[s] \ {coordinates}],
       !.squares[coordinates[1] + 1][coordinates[2] + 1] = None]

\* Mutant of move_piece: the promotion kind is ignored, the pawn itself lands.
move_piece_IgnoringPromo(board, m) ==
    LET piece == piece_at(board, m.from)
        b1 == remove_piece(board, m.to)
        b2 == place_piece(b1, piece, m.to)
        b3 == remove_piece(b2, m.from)
    IN  [b3 EXCEPT !.sides[piece.side] = (@ \ {m.from}) \cup {m.to}]

\* Mutant of move_piece: the origin is not emptied.
move_piece_OriginKept(board, m) ==
    LET piece == piece_at(board, m.from)
        b1 == remove_piece(board, m.to)
    IN  IF m.promo # NoPromo
        THEN place_piece(b1, Piece(piece.side, m.promo), m.to)
        ELSE place_piece(b1, piece, m.to)

move_piece(board, m) ==
    LET piece == piece_at(board, m.from)
        b1 == remove_piece(board, m.to)
        b2 == IF m.promo # NoPromo
              THEN place_piece(b1, Piece(piece.side, m.promo), m.to)
              ELSE place_piece(b1, piece, m.to)
        b3 == remove_piece(b2, m.from)
    IN  [b3 EXCEPT !.sides[piece.side] = (@ \ {m.from}) \cup {m.to}]

BackRank(side) ==
    << Piece(side, Rook), Piece(side, Knight), Piece(side, Bishop), Piece(side, Queen),
       Piece(side, King), Piece(side, Bishop), Piece(side, Knight), Piece(side, Rook) >>

RECURSIVE PlaceAll(_, _)
\* place_piece for each <<piece, coordinates>> of a sequence, in order
PlaceAll(board, placements) ==
    IF placements = << >> THEN board
    ELSE PlaceAll(place_piece(board, Head(placements)[1], Head(placements)[2]),
                  Tail(placements))

Board_new ==
    PlaceAll(new_blank,
        [i \in 1 .. 8 |-> << BackRank(White)[i], << 0, i - 1 >> >>]
        \o [i \in 1 .. 16 |->
              IF i % 2 = 1 THEN << Piece(White, Pawn), << 1, (i - 1) \div 2 >> >>
              ELSE << Piece(Black, Pawn), << 6, (i - 1) \div 2 >> >>]
        \o [i \in 1 .. 8 |-> << BackRank(Black)[i], << 7, i - 1 >> >>])

\* ------------------------------------------------------------------------
\* CastlingAvailability, GameState
\* ------------------------------------------------------------------------

CastlingAvailability_all ==
    [white_can_castle_kingside |-> TRUE, white_can_castle_queenside |-> TRUE,
     black_can_castle_kingside |-> TRUE, black_can_castle_queenside |-> TRUE]

CastlingAvailability_none ==
    [white_can_castle_kingside |-> FALSE, white_can_castle_queenside |-> FALSE,
     black_can_castle_kingside |-> FALSE, black_can_castle_queenside |-> FALSE]

GameState_new ==
    [board |-> Board_new,
     side_to_move |-> White,
     castling_availability |-> CastlingAvailability_all,
     en_passant_square |-> NoSquare]

\* Mutant of UpdateCastling: only a move from the king's square clears a right
\* (the rook squares are forgotten).
UpdateCastling_KingSquareOnly(ca, from) ==
    [white_can_castle_queenside |-> ca.white_can_castle_queenside /\ from # Sq("e", 1),
     white_can_castle_kingside |-> ca.white_can_castle_kingside /\ from # Sq("e", 1),
     black_can_castle_queenside |-> ca.black_can_castle_queenside /\ from # Sq("e", 8),
     black_can_castle_kingside |-> ca.black_can_castle_kingside /\ from # Sq("e", 8)]

\* Mutant of UpdateCastling: each right is assigned the test of the origin
\* square instead of being cleared when the test fails.
UpdateCastling_Reassigned(ca, from) ==
    [white_can_castle_queenside |-> ~(from = Sq("a", 1) \/ from = Sq("e", 1)),
     white_can_castle_kingside |-> ~(from = Sq("h", 1) \/ from = Sq("e", 1)),
     black_can_castle_queenside |-> ~(from = Sq("a", 8) \/ from = Sq("e", 8)),
     black_can_castle_kingside |-> ~(from = Sq("h", 8) \/ from = Sq("e", 8))]

\* Mutant of UpdateCastling: the rook squares clear the other wing's right.
UpdateCastling_WingsSwapped(ca, from) ==
    [white_can_castle_queenside |->
        ca.white_can_castle_queenside /\ ~(from = Sq("h", 1) \/ from = Sq("e", 1)),
     white_can_castle_kingside |->
        ca.white_can_castle_kingside /\ ~(from = Sq("a", 1) \/ from = Sq("e", 1)),
     black_can_castle_queenside |->
        ca.black_can_castle_queenside /\ ~(from = Sq("h", 8) \/ from = Sq("e", 8)),
     black_can_castle_kingside |->
        ca.black_can_castle_kingside /\ ~(from = Sq("a", 8) \/ from = Sq("e", 8))]

\* The four rights after a move from `from` (make_move, the four ifs).
UpdateCastling(ca, from) ==
    [white_can_castle_queenside |->
        ca.white_can_castle_queenside /\ ~(from = Sq("a", 1) \/ from = Sq("e", 1)),
     white_can_castle_kingside |->
        ca.white_can_castle_kingside /\ ~(from = Sq("h", 1) \/ from = Sq("e", 1)),
     black_can_castle_queenside |->
        ca.black_can_castle_queenside /\ ~(from = Sq("a", 8) \/ from = Sq("e", 8)),
     black_can_castle_kingside |->
        ca.black_can_castle_kingside /\ ~(from = Sq("h", 8) \/ from = Sq("e", 8))]

\* Mutant of EnPassantRemoval: the pawn is looked for on the destination's
\* rank instead of the origin's.
EnPassantRemoval_DestinationRank(g, m) ==
    IF /\ piece_at(g.board, m.from).piece_type = Pawn
       /\ g.en_passant_square # NoSquare
       /\ g.en_passant_square = m.to
    THEN remove_piece(g.board, << m.to[1], g.en_passant_square[2] >>)
    ELSE g.board

\* Mutant of EnPassantRemoval: the moving piece is not tested to be a pawn.
EnPassantRemoval_AnyPiece(g, m) ==
    IF /\ g.en_passant_square # NoSquare
       /\ g.en_passant_square = m.to
    THEN remove_piece(g.board, << m.from[1], g.en_passant_square[2] >>)
    ELSE g.board

\* The en-passant capture of make_move: a pawn landing on the en-passant
\* square removes the pawn on its origin rank and the destination's file.
EnPassantRemoval(g, m) ==
    IF /\ piece_at(g.board, m.from).piece_type = Pawn
       /\ g.en_passant_square # NoSquare
       /\ g.en_passant_square = m.to
    THEN remove_piece(g.board, << m.from[1], g.en_passant_square[2] >>)
    ELSE g.board

\* Mutant of NextEnPassant: the moving piece is not tested to be a pawn.
NextEnPassant_AnyPiece(board, m) ==
    IF m.from[1] - m.to[1] = -2 THEN << m.from[1] + 1, m.from[2] >>
    ELSE IF m.from[1] - m.to[1] = 2 THEN << m.from[1] - 1, m.from[2] >>
    ELSE NoSquare

\* en_passant_square after make_move: cleared, then set for a pawn's double step.
NextEnPassant(board, m) ==
    IF piece_at(board, m.from).piece_type = Pawn
    THEN IF m.from[1] - m.to[1] = -2 THEN << m.from[1] + 1, m.from[2] >>
         ELSE IF m.from[1] - m.to[1] = 2 THEN << m.from[1] - 1, m.from[2] >>
         ELSE NoSquare
    ELSE NoSquare

\* The rook relocation of make_move for a king moving two files.
CastleRook(board, m) ==
    IF piece_at(board, m.from).piece_type = King
    THEN LET b1 == IF m.to[2] - m.from[2] = 2
                   THEN move_piece(board, Move_new(<< m.from[1], 7 >>, << m.from[1], 5 >>))
                   ELSE board
         IN  IF m.to[2] - m.from[2] = -2
             THEN move_piece(b1, Move_new(<< m.from[1], 0 >>, << m.from[1], 3 >>))
             ELSE b1
    ELSE board

\* Board::piece_at indexes the grid without a bounds check: it panics outside it.
piece_at_panics(coordinates) == ~within_bounds(coordinates)

\* Board::move_piece panics when the origin holds no piece (unwrap) or a
\* coordinate is outside the grid.
move_piece_panics(board, m) ==
    \/ piece_at_panics(m.from)
    \/ piece_at(board, m.from) = None
    \/ piece_at_panics(m.to)

\* GameState::make_move panics: the unwraps of piece_at(m.from), the removal of
\* the en-passant pawn, the rook relocation of a two-file king move, move_piece.
make_move_panics(g, m) ==
    \/ piece_at_panics(m.from)
    \/ piece_at(g.board, m.from) = None
    \/ /\ piece_at(g.board, m.from).piece_type = Pawn
       /\ g.en_passant_square # NoSquare
       /\ g.en_passant_square = m.to
       /\ piece_at_panics(<< m.from[1], g.en_passant_square[2] >>)
    \/ LET b1 == EnPassantRemoval(g, m)
       IN  \/ piece_at(b1, m.from) = None
           \/ /\ piece_at(b1, m.from).piece_type = King
              /\ m.to[2] - m.from[2] = 2
              /\ move_piece_panics(b1, Move_new(<< m.from[1], 7 >>, << m.from[1], 5 >>))
           \/ /\ piece_at(b1, m.from).piece_type = King
              /\ m.to[2] - m.from[2] = -2
              /\ move_piece_panics(b1, Move_new(<< m.from[1], 0 >>, << m.from[1], 3 >>))
           \/ move_piece_panics(b1, m)

\* A call that panics returns nothing: the model leaves the state as it was and
\* make_move_panics tells the panic.
make_move(g, m) ==
    IF make_move_panics(g, m) THEN g
    ELSE LET b1 == EnPassantRemoval(g, m)
             ep == NextEnPassant(b1, m)
             b2 == CastleRook(b1, m)
             ca == UpdateCastling(g.castling_availability, m.from)
         IN  [board |-> move_piece(b2, m),
              side_to_move |-> other(g.side_to_move),
              castling_availability |-> ca,
              en_passant_square |-> ep]

make_move_on_copy(g, m) == make_move(g, m)

\* ------------------------------------------------------------------------
\* Pseudo-legal move generation
\* ------------------------------------------------------------------------

PromoTypes == {Knight, Bishop, Rook, Queen}

RECURSIVE InDirectionFrom_AnyOccupant(_, _, _, _, _, _)
\* Mutant of InDirectionFrom: the first occupied square is a destination
\* whichever side holds it.
InDirectionFrom_AnyOccupant(board, piece, origin, direction, distance, max_distance) ==
    IF distance > max_distance THEN {}
    ELSE LET destination == << origin[1] + direction[1] * distance,
                               origin[2] + direction[2] * distance >>
         IN  IF ~within_bounds(destination) THEN {}
             ELSE IF piece_at(board, destination) = None
                  THEN {Move_new(origin, destination)}
                       \cup InDirectionFrom_AnyOccupant(board, piece, origin, direction,
                                                        distance + 1, max_distance)
                  ELSE {Move_new(origin, destination)}

RECURSIVE InDirectionFrom(_, _, _, _, _, _)
\* the loop of get_possible_moves_in_direction from `distance` on
InDirectionFrom(board, piece, origin, direction, distance, max_distance) ==
    IF distance > max_distance THEN {}
    ELSE LET destination == << origin[1] + direction[1] * distance,
                               origin[2] + direction[2] * distance >>
         IN  IF ~within_bounds(destination) THEN {}
             ELSE LET other_piece == piece_at(board, destination)
                  IN  IF other_piece = None
                      THEN {Move_new(origin, destination)}
                           \cup InDirectionFrom(board, piece, origin, direction,
                                                distance + 1, max_distance)
                      ELSE IF piece.side # other_piece.side
                           THEN {Move_new(origin, destination)}
                           ELSE {}

get_possible_moves_in_direction(g, origin, direction, max_distance) ==
    LET piece == piece_at(g.board, origin)
    IN  IF piece = None THEN {}
        ELSE InDirectionFrom(g.board, piece, origin, direction, 1, max_distance)

KnightDirections ==
    { << 2, 1 >>, << 2, -1 >>, << 1, 2 >>, << 1, -2 >>,
      << -1, 2 >>, << -1, -2 >>, << -2, 1 >>, << -2, -1 >> }
BishopDirections == { << 1, 1 >>, << 1, -1 >>, << -1, 1 >>, << -1, -1 >> }
RookDirections == { << 1, 0 >>, << -1, 0 >>, << 0, 1 >>, << 0, -1 >> }
QueenDirections == BishopDirections \cup RookDirections
KingDirections == QueenDirections

\* Mutant of PawnDiagonal: the occupant's side is not tested.
PawnDiagonal_AnySide(g, piece, current, target, on_seventh) ==
    IF ~within_bounds(target) THEN {}
    ELSE LET other_piece == piece_at(g.board, target)
         IN  IF other_piece = None
             THEN IF g.en_passant_square # NoSquare /\ g.en_passant_square = target
                  THEN {Move_new(current, target)}
                  ELSE {}
             ELSE IF on_seventh
                  THEN {Move_new_with_promo(current, target, t) : t \in PromoTypes}
                  ELSE {Move_new(current, target)}

\* One forward diagonal of the pawn arm: forward_left or forward_right.
PawnDiagonal(g, piece, current, target, on_seventh) ==
    IF ~within_bounds(target) THEN {}
    ELSE LET other_piece == piece_at(g.board, target)
         IN  IF other_piece = None
             THEN IF g.en_passant_square # NoSquare /\ g.en_passant_square = target
                  THEN {Move_new(current, target)}
                  ELSE {}
             ELSE IF piece.side # other_piece.side
                  THEN IF on_seventh
                       THEN {Move_new_with_promo(current, target, t) : t \in PromoTypes}
                       ELSE {Move_new(current, target)}
                  ELSE {}

\* Mutant of on_initial_rank: the ranks counted from one instead of zero.
on_initial_rank_OneBased(piece, rank) ==
    IF piece.side = White THEN rank = 2 ELSE rank = 7

\* The pawn arm's on_initial_rank.
on_initial_rank(piece, rank) ==
    IF piece.side = White THEN rank = 1 ELSE rank = 6

PawnMoves(g, piece, current) ==
    LET rank == current[1]
        file == current[2]
        direction == IF piece.side = White THEN 1 ELSE -1
        one_ahead == << rank + direction, file >>
        two_ahead == << rank + direction * 2, file >>
        on_seventh == ~within_bounds(two_ahead)
        forward ==
            IF piece_at(g.board, one_ahead) = None
            THEN IF on_seventh
                 THEN {Move_new_with_promo(current, one_ahead, t) : t \in PromoTypes}
                 ELSE {Move_new(current, one_ahead)}
                      \cup (IF /\ within_bounds(two_ahead)
                               /\ piece_at(g.board, two_ahead) = None
                               /\ on_initial_rank(piece, rank)
                            THEN {Move_new(current, two_ahead)}
                            ELSE {})
            ELSE {}
    IN  forward
        \cup PawnDiagonal(g, piece, current, << rank + direction, file - 1 >>, on_seventh)
        \cup PawnDiagonal(g, piece, current, << rank + direction, file + 1 >>, on_seventh)

get_possible_moves_from(g, current) ==
    LET piece == piece_at(g.board, current)
    IN  CASE piece = None -> {}
          [] piece.piece_type = Pawn -> PawnMoves(g, piece, current)
          [] piece.piece_type = Knight ->
                UNION {get_possible_moves_in_direction(g, current, d, 1) : d \in KnightDirections}
          [] piece.piece_type = Bishop ->
                UNION {get_possible_moves_in_direction(g, current, d, 7) : d \in BishopDirections}
          [] piece.piece_type = Rook ->
                UNION {get_possible_moves_in_direction(g, current, d, 7) : d \in RookDirections}
          [] piece.piece_type = Queen ->
                UNION {get_possible_moves_in_direction(g, current, d, 7) : d \in QueenDirections}
          [] piece.piece_type = King ->
                UNION {get_possible_moves_in_direction(g, current, d, 1) : d \in KingDirections}

get_possible_moves(g) ==
    UNION {get_possible_moves_from(g, origin) : origin \in g.board.sides[g.side_to_move]}

\* ------------------------------------------------------------------------
\* Check, legality, castling
\* ------------------------------------------------------------------------

\* Mutant of is_in_check: the moves looked at are those of the side to move.
is_in_check_SideToMoveOnly(g, side) ==
    \E m \in get_possible_moves(g) : m.to = king_location(g.board, side)

is_in_check(g, side) ==
    \E square \in g.board.sides[other(side)] :
        \E m \in get_possible_moves_from(g, square) :
            m.to = king_location(g.board, side)

move_would_put_self_in_check(g, m) ==
    LET side_making_move == piece_at(g.board, m.from).side
        hypothetical_board == make_move_on_copy(g, m)
    IN  is_in_check(hypothetical_board, side_making_move)

\* Mutant of CastlingWing: only the landing square is check-tested.
CastlingWing_LandingOnly(g, right, home, cross, land, extra) ==
    IF /\ right
       /\ piece_at(g.board, cross) = None
       /\ piece_at(g.board, land) = None
       /\ ~move_would_put_self_in_check(g, Move_new(home, land))
       /\ (extra = NoSquare \/ piece_at(g.board, extra) = None)
    THEN {Move_new(home, land)}
    ELSE {}

\* One wing of get_castling_moves: the square the king crosses, then the one
\* it lands on, is empty and the king moved there is not in check; `extra` is
\* the b-file square (queenside), tested for emptiness only, or NoSquare.
CastlingWing(g, right, home, cross, land, extra) ==
    IF /\ right
       /\ piece_at(g.board, cross) = None
       /\ ~move_would_put_self_in_check(g, Move_new(home, cross))
       /\ piece_at(g.board, land) = None
       /\ ~move_would_put_self_in_check(g, Move_new(home, land))
       /\ (extra = NoSquare \/ piece_at(g.board, extra) = None)
    THEN {Move_new(home, land)}
    ELSE {}

get_castling_moves(g) ==
    LET king_initial_square == IF g.side_to_move = White THEN Sq("e", 1) ELSE Sq("e", 8)
        piece == piece_at(g.board, king_initial_square)
        ca == g.castling_availability
    IN  IF is_in_check(g, g.side_to_move) THEN {}
        ELSE IF piece = None \/ piece.piece_type # King THEN {}
        ELSE IF piece.side = White
             THEN CastlingWing(g, ca.white_can_castle_kingside,
                               Sq("e", 1), Sq("f", 1), Sq("g", 1), NoSquare)
                  \cup CastlingWing(g, ca.white_can_castle_queenside,
                                    Sq("e", 1), Sq("d", 1), Sq("c", 1), Sq("b", 1))
             ELSE CastlingWing(g, ca.black_can_castle_kingside,
                               Sq("e", 8), Sq("f", 8), Sq("g", 8), NoSquare)
                  \cup CastlingWing(g, ca.black_can_castle_queenside,
                                    Sq("e", 8), Sq("d", 8), Sq("c", 8), Sq("b", 8))

\* Mutant of get_legal_moves: the candidates are not filtered.
get_legal_moves_Unfiltered(g) ==
    get_possible_moves(g) \cup get_castling_moves(g)

get_legal_moves(g) ==
    {candidate \in get_possible_moves(g) : ~move_would_put_self_in_check(g, candidate)}
    \cup get_castling_moves(g)

\* Mutant of is_in_checkmate: the test for check is dropped.
is_in_checkmate_NoCheckTest(g, side) ==
    g.side_to_move = side /\ get_legal_moves(g) = {}

is_in_checkmate(g, side) ==
    g.side_to_move = side /\ is_in_check(g, side) /\ get_legal_moves(g) = {}

\* Mutant of is_in_stalemate: the test for check is dropped.
is_in_stalemate_NoCheckTest(g) ==
    get_legal_moves(g) = {}

is_in_stalemate(g) ==
    ~is_in_check(g, g.side_to_move) /\ get_legal_moves(g) = {}

\* GameState::move_is_legal: the candidate is looked up among the moves
\* get_possible_moves_from generates from its origin square.
move_is_legal(g, candidate) ==
    IF piece_at(g.board, candidate.from) = None THEN FALSE
    ELSE candidate \in get_possible_moves_from(g, candidate.from)

\* ------------------------------------------------------------------------
\* Panics of the queries (an unwrap of None, an index outside the grid)
\* ------------------------------------------------------------------------

\* get_possible_moves_from reads piece_at(current) and, for a pawn,
\* piece_at(one_ahead) with no bounds check; every other read is guarded.
get_possible_moves_from_panics(g, current) ==
    \/ piece_at_panics(current)
    \/ LET piece == piece_at(g.board, current)
       IN  /\ piece.piece_type = Pawn
           /\ piece_at_panics(<< current[1] + (IF piece.side = White THEN 1 ELSE -1),
                                 current[2] >>)

\* is_in_check walks the other side's squares in the set's unspecified order
\* and returns at the first hit: any square that can panic counts.
is_in_check_panics(g, side) ==
    \E square \in g.board.sides[other(side)] : get_possible_moves_from_panics(g, square)

move_would_put_self_in_check_panics(g, m) ==
    \/ piece_at_panics(m.from)
    \/ piece_at(g.board, m.from) = None
    \/ make_move_panics(g, m)
    \/ is_in_check_panics(make_move_on_copy(g, m), piece_at(g.board, m.from).side)

\* One wing of get_castling_moves, with the source's short-circuit order.
CastlingWingPanics(g, right, home, cross, land) ==
    /\ right
    /\ piece_at(g.board, cross) = None
    /\ \/ move_would_put_self_in_check_panics(g, Move_new(home, cross))
       \/ /\ ~move_would_put_self_in_check(g, Move_new(home, cross))
          /\ piece_at(g.board, land) = None
          /\ move_would_put_self_in_check_panics(g, Move_new(home, land))

get_castling_moves_panics(g) ==
    LET king_initial_square == IF g.side_to_move = White THEN Sq("e", 1) ELSE Sq("e", 8)
        piece == piece_at(g.board, king_initial_square)
        ca == g.castling_availability
    IN  \/ is_in_check_panics(g, g.side_to_move)
        \/ /\ ~is_in_check(g, g.side_to_move)
           /\ piece # None /\ piece.piece_type = King
           /\ IF piece.side = White
              THEN \/ CastlingWingPanics(g, ca.white_can_castle_kingside,
                                         Sq("e", 1), Sq("f", 1), Sq("g", 1))
                   \/ CastlingWingPanics(g, ca.white_can_castle_queenside,
                                         Sq("e", 1), Sq("d", 1), Sq("c", 1))
              ELSE \/ CastlingWingPanics(g, ca.black_can_castle_kingside,
                                         Sq("e", 8), Sq("f", 8), Sq("g", 8))
                   \/ CastlingWingPanics(g, ca.black_can_castle_queenside,
                                         Sq("e", 8), Sq("d", 8), Sq("c", 8))

get_legal_moves_panics(g) ==
    \/ \E origin \in g.board.sides[g.side_to_move] : get_possible_moves_from_panics(g, origin)
    \/ \E candidate \in get_possible_moves(g) : move_would_put_self_in_check_panics(g, candidate)
    \/ get_castling_moves_panics(g)

\* ------------------------------------------------------------------------
\* Games: the lines the model plays, and positions the tests set up
\* ------------------------------------------------------------------------

\* the empty line: free play from the standard start
Opening == << >>

\* tests::test_checkmate
ScholarsMate ==
    << Mv("e", 2, "e", 4), Mv("e", 7, "e", 5), Mv("d", 1, "h", 5),
       Mv("b", 8, "c", 6), Mv("f", 1, "c", 4), Mv("g", 8, "f", 6),
       Mv("h", 5, "f", 7) >>

\* tests::test_checkmate2
FoolsMate ==
    << Mv("f", 2, "f", 3), Mv("e", 7, "e", 5), Mv("g", 2, "g", 4),
       Mv("d", 8, "h", 4) >>

\* tests::test_en_passant
EnPassantLeft ==
    << Mv("e", 2, "e", 4), Mv("a", 7, "a", 6), Mv("e", 4, "e", 5),
       Mv("d", 7, "d", 5), Mv("e", 5, "d", 6) >>

\* tests::test_en_passant2
EnPassantRight ==
    << Mv("e", 2, "e", 4), Mv("a", 7, "a", 6), Mv("e", 4, "e", 5),
       Mv("f", 7, "f", 5), Mv("e", 5, "f", 6) >>

\* an en-passant capture by Black
EnPassantBlack ==
    << Mv("a", 2, "a", 3), Mv("e", 7, "e", 5), Mv("a", 3, "a", 4),
       Mv("e", 5, "e", 4), Mv("d", 2, "d", 4), Mv("e", 4, "d", 3) >>

\* tests::test_castling
CastleKingside ==
    << Mv("e", 2, "e", 4), Mv("e", 7, "e", 5), Mv("g", 1, "f", 3),
       Mv("b", 8, "c", 6), Mv("f", 1, "c", 4), Mv("f", 8, "c", 5),
       Mv("e", 1, "g", 1) >>

\* tests::test_castling2
CastleBoth ==
    << Mv("d", 2, "d", 4), Mv("g", 8, "f", 6), Mv("b", 1, "c", 3),
       Mv("g", 7, "g", 6), Mv("c", 1, "f", 4), Mv("f", 8, "g", 7),
       Mv("d", 1, "d", 2), Mv("e", 8, "g", 8), Mv("e", 1, "c", 1) >>

\* tests::test_castling3
CastleAfterCheck ==
    << Mv("e", 2, "e", 4), Mv("e", 7, "e", 5), Mv("g", 1, "f", 3),
       Mv("g", 8, "f", 6), Mv("f", 1, "c", 4), Mv("h", 7, "h", 6),
       Mv("d", 2, "d", 3), Mv("f", 8, "b", 4), Mv("c", 2, "c", 3),
       Mv("b", 4, "a", 5), Mv("e", 1, "g", 1) >>

\* the check of tests::test_castling3 met by a knight, which is then pinned
CastleWithPin ==
    << Mv("e", 2, "e", 4), Mv("e", 7, "e", 5), Mv("g", 1, "f", 3),
       Mv("g", 8, "f", 6), Mv("f", 1, "c", 4), Mv("h", 7, "h", 6),
       Mv("d", 2, "d", 3), Mv("f", 8, "b", 4), Mv("b", 1, "c", 3),
       Mv("a", 7, "a", 6), Mv("e", 1, "g", 1) >>

\* a bishop on a6 covers f1: White may not castle kingside through it
CastleThroughAttack ==
    << Mv("e", 2, "e", 4), Mv("b", 7, "b", 6), Mv("g", 2, "g", 3),
       Mv("c", 8, "a", 6), Mv("f", 1, "h", 3), Mv("e", 7, "e", 6),
       Mv("g", 1, "f", 3), Mv("g", 8, "f", 6) >>

\* a bishop takes the rook on h1 and stays there
RookTakenAtHome ==
    << Mv("g", 2, "g", 4), Mv("b", 7, "b", 6), Mv("e", 2, "e", 3),
       Mv("c", 8, "b", 7), Mv("f", 1, "d", 3), Mv("b", 7, "h", 1),
       Mv("g", 1, "e", 2), Mv("a", 7, "a", 6), Mv("e", 1, "g", 1) >>

\* a bishop takes the rook on h1 and leaves again
RookTakenThenLeft ==
    << Mv("g", 2, "g", 4), Mv("b", 7, "b", 6), Mv("e", 2, "e", 3),
       Mv("c", 8, "b", 7), Mv("f", 1, "d", 3), Mv("b", 7, "h", 1),
       Mv("g", 1, "e", 2), Mv("h", 1, "b", 7), Mv("a", 2, "a", 3) >>

\* a pawn promotes on g8 by capture
PromotionByCapture ==
    << Mv("h", 2, "h", 4), Mv("g", 7, "g", 5), Mv("h", 4, "g", 5),
       Mv("h", 7, "h", 6), Mv("g", 5, "h", 6), Mv("a", 7, "a", 6),
       Mv("h", 6, "h", 7), Mv("a", 6, "a", 5), Move_new_with_promo(Sq("h", 7), Sq("g", 8), Queen) >>

\* a black pawn promotes on b1 by capture
PromotionBlack ==
    << Mv("a", 2, "a", 3), Mv("b", 7, "b", 5), Mv("a", 3, "a", 4),
       Mv("b", 5, "a", 4), Mv("h", 2, "h", 3), Mv("a", 4, "a", 3),
       Mv("h", 3, "h", 4), Mv("a", 3, "b", 2), Mv("h", 4, "h", 5),
       Move_new_with_promo(Sq("b", 2), Sq("a", 1), Knight) >>

\* the ten-move stalemate
LoydStalemate ==
    << Mv("e", 2, "e", 3), Mv("a", 7, "a", 5), Mv("d", 1, "h", 5),
       Mv("a", 8, "a", 6), Mv("h", 5, "a", 5), Mv("h", 7, "h", 5),
       Mv("h", 2, "h", 4), Mv("a", 6, "h", 6), Mv("a", 5, "c", 7),
       Mv("f", 7, "f", 6), Mv("c", 7, "d", 7), Mv("e", 8, "f", 7),
       Mv("d", 7, "b", 7), Mv("d", 8, "d", 3), Mv("b", 7, "b", 8),
       Mv("d", 3, "h", 7), Mv("b", 8, "c", 8), Mv("f", 7, "g", 6),
       Mv("c", 8, "e", 6) >>

\* tests::test_check
QueenCheck ==
    << Mv("e", 2, "e", 4), Mv("e", 7, "e", 5), Mv("f", 2, "f", 4),
       Mv("d", 8, "h", 4), Mv("g", 2, "g", 3) >>

\* a pawn takes on f7 with check, and can promote by taking on g8
PawnCheckOnSeventh ==
    << Mv("e", 2, "e", 4), Mv("a", 7, "a", 6), Mv("e", 4, "e", 5),
       Mv("a", 6, "a", 5), Mv("e", 5, "e", 6), Mv("a", 5, "a", 4),
       Mv("e", 6, "f", 7) >>

\* a pawn arrives on e7, directly in front of the king on e8
PawnInFrontOfKing ==
    << Mv("e", 2, "e", 4), Mv("d", 7, "d", 5), Mv("e", 4, "d", 5),
       Mv("e", 7, "e", 6), Mv("d", 5, "e", 6), Mv("a", 7, "a", 6),
       Mv("e", 6, "e", 7) >>

\* a knight moves onto the square a pawn has just skipped
KnightOntoEnPassantSquare ==
    << Mv("g", 1, "f", 3), Mv("a", 7, "a", 6), Mv("f", 3, "g", 5),
       Mv("e", 7, "e", 5), Mv("g", 5, "e", 6) >>

\* A GameState built on a blank board, as the tests build theirs.
Fixture(side_to_move, placements) ==
    [board |-> PlaceAll(new_blank, placements),
     side_to_move |-> side_to_move,
     castling_availability |-> CastlingAvailability_none,
     en_passant_square |-> NoSquare]

\* tests::test_checkmate3, after each of its four stages
Checkmate3(stage) ==
    Fixture(Black,
        SubSeq(<< << Piece(White, Rook), Sq("a", 8) >>, << Piece(White, King), Sq("g", 1) >>,
                  << Piece(Black, King), Sq("g", 8) >>, << Piece(Black, Pawn), Sq("f", 7) >>,
                  << Piece(Black, Pawn), Sq("g", 7) >>, << Piece(Black, Pawn), Sq("h", 7) >>,
                  << Piece(Black, Bishop), Sq("e", 4) >>, << Piece(Black, Pawn), Sq("d", 5) >>,
                  << Piece(Black, Knight), Sq("b", 6) >> >>, 1, 5 + stage))

\* tests::test_stalemate
StalemateFixture ==
    Fixture(Black,
        << << Piece(White, King), Sq("h", 1) >>, << Piece(White, Queen), Sq("c", 7) >>,
           << Piece(Black, King), Sq("a", 8) >> >>)

\* tests::test_promotion
PromotionFixture ==
    Fixture(White,
        << << Piece(White, Pawn), Sq("a", 7) >>, << Piece(White, King), Sq("b", 7) >>,
           << Piece(Black, King), Sq("d", 7) >> >>)

\* Each game: the state it starts from, the moves it then plays, and whether
\* free play (any legal move) follows them.
Games ==
    << [start |-> GameState_new, moves |-> Opening, explore |-> TRUE],
       [start |-> GameState_new, moves |-> ScholarsMate, explore |-> FALSE],
       [start |-> GameState_new, moves |-> FoolsMate, explore |-> FALSE],
       [start |-> GameState_new, moves |-> EnPassantLeft, explore |-> FALSE],
       [start |-> GameState_new, moves |-> EnPassantRight, explore |-> FALSE],
       [start |-> GameState_new, moves |-> EnPassantBlack, explore |-> FALSE],
       [start |-> GameState_new, moves |-> CastleKingside, explore |-> FALSE],
       [start |-> GameState_new, moves |-> CastleBoth, explore |-> FALSE],
       [start |-> GameState_new, moves |-> CastleAfterCheck, explore |-> FALSE],
       [start |-> GameState_new, moves |-> CastleWithPin, explore |-> FALSE],
       [start |-> GameState_new, moves |-> CastleThroughAttack, explore |-> FALSE],
       [start |-> GameState_new, moves |-> RookTakenAtHome, explore |-> FALSE],
       [start |-> GameState_new, moves |-> RookTakenThenLeft, explore |-> FALSE],
       [start |-> GameState_new, moves |-> PromotionByCapture, explore |-> FALSE],
       [start |-> GameState_new, moves |-> PromotionBlack, explore |-> FALSE],
       [start |-> GameState_new, moves |-> LoydStalemate, explore |-> FALSE],
       [start |-> Checkmate3(1), moves |-> << >>, explore |-> TRUE],
       [start |-> Checkmate3(2), moves |-> << >>, explore |-> TRUE],
       [start |-> Checkmate3(3), moves |-> << >>, explore |-> TRUE],
       [start |-> Checkmate3(4), moves |-> << >>, explore |-> TRUE],
       [start |-> StalemateFixture, moves |-> << >>, explore |-> TRUE],
       [start |-> PromotionFixture, moves |-> << >>, explore |-> TRUE],
       [start |-> GameState_new, moves |-> QueenCheck, explore |-> FALSE],
       [start |-> GameState_new, moves |-> PawnCheckOnSeventh, explore |-> FALSE],
       [start |-> GameState_new, moves |-> PawnInFrontOfKing, explore |-> FALSE],
       [start |-> GameState_new, moves |-> KnightOntoEnPassantSquare, explore |-> FALSE] >>

\* Plies of free play after a game's moves.
MaxFree == 1

NoMove == Move_new(<< -1, -1 >>, << -1, -1 >>)

\* ------------------------------------------------------------------------
\* The move policy (src/src/ai.rs)
\* ------------------------------------------------------------------------

RECURSIVE MoveList(_)
\* The Vec<Move> get_legal_moves returns: the moves in some order.
MoveList(moves) ==
    IF moves = {} THEN << >>
    ELSE LET m == CHOOSE x \in moves : TRUE
         IN  << m >> \o MoveList(moves \ {m})

\* rng.gen_range(low..high): the values a draw can yield.
gen_range(low, high) == low .. high - 1

\* Mutant of next_move: the move is drawn from the unfiltered candidates.
next_move_Unfiltered(g) ==
    LET legal_moves == MoveList(get_possible_moves(g) \cup get_castling_moves(g))
    IN  IF legal_moves = << >> THEN {NoMove}
        ELSE {legal_moves[i + 1] : i \in gen_range(0, Len(legal_moves))}

\* ai::next_move: the results it can return, None being NoMove.
next_move(g) ==
    LET legal_moves == MoveList(get_legal_moves(g))
    IN  IF legal_moves = << >> THEN {NoMove}
        ELSE {legal_moves[i + 1] : i \in gen_range(0, Len(legal_moves))}

\* ai::next_move fails: indexing the Vec outside its length panics.
next_move_panics(g) ==
    \/ get_legal_moves_panics(g)
    \/ LET legal_moves == MoveList(get_legal_moves(g))
       IN  /\ legal_moves # << >>
           /\ \E i \in gen_range(0, Len(legal_moves)) : i >= Len(legal_moves)

\* ------------------------------------------------------------------------
\* The state machine
\* ------------------------------------------------------------------------

VARIABLES
    game,    \* the GameState
    line,    \* the game being played: an index of Games
    idx,     \* the number of make_move calls so far
    last,    \* the argument of the latest make_move call, or NoMove
    prev,    \* the GameState the latest make_move call was applied to
    given,            \* the value a caller hands to the notation functions
    converted,        \* the results of the conversions applied to it, in order
    overflow_checks   \* whether the build checks arithmetic overflow

vars == << game, line, idx, last, prev, given, converted, overflow_checks >>

\* No value was handed to the notation functions.
NoValue == [kind |-> "none", value |-> << >>]

Init ==
    /\ line \in 1 .. Len(Games)
    /\ game = Games[line].start
    /\ idx = 0
    /\ last = NoMove
    /\ prev = game
    /\ given = NoValue
    /\ converted = << >>
    /\ overflow_checks = TRUE

\* The moves the caller may pass to make_move: the game's next move if it is
\* legal, then whatever next_move returns for MaxFree plies where the game is
\* explored (the loop of ai_tests::sanity_test stops at None).
Inputs ==
    IF idx < Len(Games[line].moves)
    THEN {Games[line].moves[idx + 1]} \cap get_legal_moves(game)
    ELSE IF Games[line].explore /\ idx < Len(Games[line].moves) + MaxFree
         THEN next_move(game) \ {NoMove}
         ELSE {}

MakeMove(m) ==
    /\ game' = make_move(game, m)
    /\ idx' = idx + 1
    /\ last' = m
    /\ prev' = game
    /\ UNCHANGED << line, given, converted, overflow_checks >>

Next == \E m \in Inputs : MakeMove(m)

Spec == Init /\ [][Next]_vars

\* ------------------------------------------------------------------------
\* The notation functions, applied to values a caller hands them
\* ------------------------------------------------------------------------

\* The longest square name handed over, and the number of conversions chained.
MaxName == 2
MaxConversions == 2

\* '-', the digits '0'..'9', and '`', 'a'..'h', 'i'
NameBytes == {45} \cup (48 .. 57) \cup (96 .. 105)

\* Square names handed over: every string of at most MaxName of these bytes,
\* and a two-byte character (U+00E9).
GivenNames ==
    UNION { [1 .. n -> NameBytes] : n \in 0 .. MaxName } \cup { << 195, 169 >> }

WellFormedName(name) ==
    /\ Len(name) = 2
    /\ name[1] \in 97 .. 104
    /\ name[2] \in 49 .. 56

WellFormedNames == { name \in [1 .. 2 -> NameBytes] : WellFormedName(name) }

\* "", "a", "a1", "c2", "h8", "i9", "`0", U+00E9
SampleNames ==
    { << >>, << 97 >>, << 97, 49 >>, << 99, 50 >>, << 104, 56 >>, << 105, 57 >>,
      << 96, 48 >>, << 195, 169 >> }

\* Move texts handed over: every "<from>-<to>" of well-formed names, and the
\* sample names joined by nothing, by '-' or by '='.
GivenTexts ==
    { n1 \o << 45 >> \o n2 : n1 \in WellFormedNames, n2 \in WellFormedNames }
    \cup { n1 \o sep \o n2 :
             n1 \in SampleNames, n2 \in SampleNames, sep \in { << >>, << 45 >>, << 61 >> } }

GivenCoordinates == (-1 .. 8) \X (-1 .. 8)

GivenMoves ==
    { Move_new_with_promo(from, to, promo) :
        from \in Coordinate, to \in Coordinate, promo \in {NoPromo, Queen} }

Panic == [kind |-> "panic", value |-> << >>]

TextInit ==
    /\ game = GameState_new
    /\ line = 1
    /\ idx = 0
    /\ last = NoMove
    /\ prev = game
    /\ given \in { [kind |-> "name", value |-> v] : v \in GivenNames }
                \cup { [kind |-> "coordinates", value |-> v] : v \in GivenCoordinates }
                \cup { [kind |-> "text", value |-> v] : v \in GivenTexts }
                \cup { [kind |-> "move", value |-> v] : v \in GivenMoves }
    /\ converted = << >>
    /\ overflow_checks \in BOOLEAN

\* The value the next conversion is applied to.
Current == IF converted = << >> THEN given ELSE converted[Len(converted)]

Convert(result) ==
    /\ Len(converted) < MaxConversions
    /\ converted' = Append(converted, result)
    /\ UNCHANGED << game, line, idx, last, prev, given, overflow_checks >>

CoordinatesFromName ==
    /\ Current.kind = "name"
    /\ Convert(IF coordinates_from_name_panics(Current.value, overflow_checks)
               THEN Panic
               ELSE [kind |-> "coordinates", value |-> coordinates_from_name(Current.value)])

NameFromCoordinates ==
    /\ Current.kind = "coordinates"
    /\ Convert(IF name_from_coordinates_panics(Current.value, overflow_checks)
               THEN Panic
               ELSE [kind |-> "name", value |-> name_from_coordinates(Current.value)])

MoveFromStr ==
    /\ Current.kind = "text"
    /\ Convert(IF Move_from_str_panics(Current.value, overflow_checks)
               THEN Panic
               ELSE [kind |-> "move", value |-> Move_from_str(Current.value)])

MoveToString ==
    /\ Current.kind = "move"
    /\ Convert(IF Move_to_string_panics(Current.value, overflow_checks)
               THEN Panic
               ELSE [kind |-> "text", value |-> Move_to_string(Current.value)])

TextNext ==
    \/ CoordinatesFromName
    \/ NameFromCoordinates
    \/ MoveFromStr
    \/ MoveToString

TextSpec == TextInit /\ [][TextNext]_vars

\* ------------------------------------------------------------------------
\* Properties
\* ------------------------------------------------------------------------

GameIndex(moves) == CHOOSE k \in 1 .. Len(Games) : Games[k].moves = moves /\ moves # << >>

Mover == game.side_to_move
BackRankOf(side) == IF side = White THEN 0 ELSE 7
FarthestRank(side) == IF side = White THEN 7 ELSE 0

\* A king on the e-file moving two files along its rank.
IsCastlingMove(g, m) ==
    /\ piece_at(g.board, m.from).piece_type = King
    /\ m.from[2] = 4
    /\ m.to[1] = m.from[1]
    /\ m.to[2] - m.from[2] \in {2, -2}

\* The moves get_legal_moves selects from: every legal move is one of them.
CandidateMoves(g) == get_possible_moves(g) \cup get_castling_moves(g)

\* C1: every legal move, castling included, leaves the side that made it out
\* of check in the state make_move produces.
C1_LegalMovesLeaveMoverSafe ==
    \A m \in get_legal_moves(game) : ~is_in_check(make_move(game, m), Mover)

\* A state where the filter rejects a candidate and a castling move is legal.
C1_Witness ==
    /\ idx > 0
    /\ LET legal == get_legal_moves(game)
       IN  /\ get_possible_moves(game) \ legal # {}
           /\ \E m \in legal : IsCastlingMove(game, m)

\* C2: computing the legal moves and applying any of them (any candidate
\* get_legal_moves selects from) never unwraps an
\* empty square and never indexes the grid out of bounds, the rook relocation
\* of a castling move included.
C2_NoPanic ==
    /\ ~get_legal_moves_panics(game)
    /\ \A m \in CandidateMoves(game) : ~make_move_panics(game, m)

\* A state reached by a castling move (the rook relocation ran).
C2_Witness ==
    /\ last # NoMove
    /\ IsCastlingMove(prev, last)
    /\ last \in get_legal_moves(prev)
    /\ ~make_move_panics(prev, last)

\* C3: a legal castling move leaves the king on the g-file (c-file), a rook of
\* the mover on the f-file (d-file), and the corner and the e-file square empty.
C3_CastlingPlacesKingAndRook ==
    \A m \in get_legal_moves(game) :
        IsCastlingMove(game, m) =>
            LET after == make_move(game, m).board
                rank == m.from[1]
                kingside == m.to[2] - m.from[2] = 2
            IN  /\ rank = BackRankOf(Mover)
                /\ piece_at(after, << rank, IF kingside THEN 6 ELSE 2 >>) = Piece(Mover, King)
                /\ piece_at(after, << rank, IF kingside THEN 5 ELSE 3 >>) = Piece(Mover, Rook)
                /\ piece_at(after, << rank, IF kingside THEN 7 ELSE 0 >>) = None
                /\ piece_at(after, << rank, 4 >>) = None

\* The king moved alone from `home` to `to` stands in check.
KingAloneInCheck(g, home, to) ==
    is_in_check([g EXCEPT !.board = move_piece(g.board, Move_new(home, to))],
                g.side_to_move)

\* The two wings: the king's landing file, the corner file, the files between
\* king and corner, the files the king crosses and lands on.
Wings ==
    { [land |-> 6, corner |-> 7, between |-> {5, 6}, path |-> {5, 6}],
      [land |-> 2, corner |-> 0, between |-> {1, 2, 3}, path |-> {3, 2}] }

RightOf(g, side, wing) ==
    IF side = White
    THEN IF wing.land = 6 THEN g.castling_availability.white_can_castle_kingside
         ELSE g.castling_availability.white_can_castle_queenside
    ELSE IF wing.land = 6 THEN g.castling_availability.black_can_castle_kingside
         ELSE g.castling_availability.black_can_castle_queenside

CastlingConditions(g, wing) ==
    LET rank == BackRankOf(g.side_to_move)
    IN  /\ RightOf(g, g.side_to_move, wing)
        /\ ~is_in_check(g, g.side_to_move)
        /\ \A f \in wing.between : piece_at(g.board, << rank, f >>) = None
        /\ \A f \in wing.path : ~KingAloneInCheck(g, << rank, 4 >>, << rank, f >>)

\* C4: with the king of the side to move on its home square, a castling move
\* is legal only if the right is held, the side is not in check, the squares
\* between king and corner are empty and the king alone would not be in check
\* on the square it crosses nor on the one it lands on; with the rook on its
\* corner too, the move is legal whenever all of these hold.
C4_CastlingConditions ==
    LET legal == get_legal_moves(game)
    IN  \A wing \in Wings :
            LET rank == BackRankOf(Mover)
                home == << rank, 4 >>
                castle == Move_new(home, << rank, wing.land >>)
                king_home == piece_at(game.board, home) = Piece(Mover, King)
                rook_home == piece_at(game.board, << rank, wing.corner >>) = Piece(Mover, Rook)
            IN  /\ (king_home /\ castle \in legal) => CastlingConditions(game, wing)
                /\ (king_home /\ rook_home /\ CastlingConditions(game, wing))
                      => castle \in legal

\* A state where one castling move is legal and the other wing's is refused.
C4_Witness ==
    /\ idx > 0
    /\ \E m \in get_legal_moves(game) : IsCastlingMove(game, m)
    /\ \E wing \in Wings : ~CastlingConditions(game, wing)

\* C5: no make_move turns a castling right from false to true.
C5_RightsOnlyLost ==
    [][ LET old == game.castling_availability
            new == game'.castling_availability
        IN  /\ new.white_can_castle_kingside => old.white_can_castle_kingside
            /\ new.white_can_castle_queenside => old.white_can_castle_queenside
            /\ new.black_can_castle_kingside => old.black_can_castle_kingside
            /\ new.black_can_castle_queenside => old.black_can_castle_queenside ]_vars

\* A state from the standard start where a move has cleared White's rights
\* and a later move from another square was made.
C5_Witness ==
    /\ idx > 1
    /\ prev.castling_availability = game.castling_availability
    /\ ~game.castling_availability.white_can_castle_kingside
    /\ game.castling_availability.black_can_castle_kingside

\* The latest move was a pawn advancing two ranks.
DoubleStep ==
    /\ last # NoMove
    /\ piece_at(prev.board, last.from).piece_type = Pawn
    /\ last.to[1] - last.from[1] \in {2, -2}

\* The square the latest move's pawn skipped over.
Skipped == << (last.from[1] + last.to[1]) \div 2, last.to[2] >>

\* The squares beside the pawn that just moved holding a pawn of the side to move.
PawnsBeside ==
    { c \in { << last.to[1], last.to[2] - 1 >>, << last.to[1], last.to[2] + 1 >> } :
        within_bounds(c) /\ piece_at(game.board, c) = Piece(Mover, Pawn) }

\* C6: after a pawn's double step, every enemy pawn beside it has the capture
\* onto the skipped square among its pseudo-legal moves, legal unless it
\* leaves the mover in check; applying it puts the capturing pawn on the
\* skipped square, empties its origin and the double-stepped pawn's square,
\* and changes no other square.
C6_EnPassant ==
    DoubleStep =>
        \A c \in PawnsBeside :
            LET m == Move_new(c, Skipped)
                after == make_move(game, m)
            IN  /\ m \in get_possible_moves_from(game, c)
                /\ m \in get_possible_moves(game)
                /\ m \in get_legal_moves(game) <=> ~is_in_check(after, Mover)
                /\ piece_at(after.board, Skipped) = Piece(Mover, Pawn)
                /\ piece_at(after.board, c) = None
                /\ piece_at(after.board, last.to) = None
                /\ \A d \in Coordinate \ {Skipped, c, last.to} :
                      piece_at(after.board, d) = piece_at(game.board, d)
                /\ after.board.sides[other(Mover)]
                      = game.board.sides[other(Mover)] \ {last.to}

\* A state right after a double step that landed beside an enemy pawn.
C6_Witness == DoubleStep /\ PawnsBeside # {}

\* C7: a legal move (any candidate get_legal_moves selects from) carries a
\* promotion kind exactly when it is a pawn move
\* onto the farthest rank; the kind is Knight, Bishop, Rook or Queen, and
\* applying the move leaves that kind of the mover's side on the destination
\* and the origin empty.
C7_Promotion ==
    \A m \in CandidateMoves(game) :
        LET piece == piece_at(game.board, m.from)
            after == make_move(game, m).board
        IN  /\ m.promo # NoPromo
                <=> (piece.piece_type = Pawn /\ m.to[1] = FarthestRank(piece.side))
            /\ m.promo # NoPromo =>
                  /\ m.promo \in {Knight, Bishop, Rook, Queen}
                  /\ piece.side = Mover
                  /\ piece_at(after, m.to) = Piece(Mover, m.promo)
                  /\ piece_at(after, m.from) = None

\* A state reached from the standard start where a promotion is legal.
C7_Witness ==
    /\ idx > 0
    /\ \E m \in get_legal_moves(game) : m.promo = Queen

\* The 16 pawn pushes and 4 knight moves of the standard start.
StartMoves ==
    { Move_new(<< 1, f >>, << 2, f >>) : f \in 0 .. 7 }
    \cup { Move_new(<< 1, f >>, << 3, f >>) : f \in 0 .. 7 }
    \cup { Mv("b", 1, "a", 3), Mv("b", 1, "c", 3), Mv("g", 1, "f", 3), Mv("g", 1, "h", 3) }

\* C8: in GameState::new() the legal moves are exactly the 20 moves of White:
\* 16 pawn pushes and 4 knight moves.
C8_TwentyMovesAtStart ==
    game = GameState_new =>
        /\ get_legal_moves(game) = StartMoves
        /\ Cardinality(get_legal_moves(game)) = 20
        /\ game.side_to_move = White

\* The state GameState::new(), with its legal moves computed.
C8_Witness ==
    /\ idx = 0
    /\ game = GameState_new
    /\ Mv("e", 2, "e", 4) \in get_legal_moves(game)

\* No candidate of the side to move (pseudo-legal or castling) leaves it out of check.
NoEscape(g) ==
    \A m \in get_possible_moves(g) \cup get_castling_moves(g) :
        is_in_check(make_move(g, m), g.side_to_move)

\* C9: is_in_checkmate(side) holds exactly when side is to move, is in check
\* and has no move that ends the check; it holds for Black after the scholar's
\* mate, for White after the fool's mate, and in tests::test_checkmate3 only
\* in the stages without a capture of the rook or an interposition.
C9_Checkmate ==
    /\ \A side \in Sides :
          is_in_checkmate(game, side)
            <=> (side = Mover /\ is_in_check(game, side) /\ NoEscape(game))
    /\ (line = GameIndex(ScholarsMate) /\ idx = Len(ScholarsMate))
          => is_in_checkmate(game, Black) /\ ~is_in_checkmate(game, White)
    /\ (line = GameIndex(FoolsMate) /\ idx = Len(FoolsMate))
          => is_in_checkmate(game, White)
    /\ game = Checkmate3(1) => is_in_checkmate(game, Black)
    /\ game = Checkmate3(2) => ~is_in_checkmate(game, Black)
    /\ game = Checkmate3(3) => is_in_checkmate(game, Black)
    /\ game = Checkmate3(4) => ~is_in_checkmate(game, Black)

\* The scholar's mate, reached from the standard start.
C9_Witness ==
    /\ line = GameIndex(ScholarsMate)
    /\ idx = Len(ScholarsMate)
    /\ is_in_checkmate(game, Black)

\* C10: is_in_stalemate holds exactly when the side to move is not in check
\* and has no legal move; no state is a stalemate and a checkmate at once;
\* tests::test_stalemate's position is a stalemate and no checkmate.
C10_Stalemate ==
    LET stalemate == is_in_stalemate(game)
        in_check == is_in_check(game, Mover)
    IN  /\ stalemate <=> (~in_check /\ NoEscape(game))
        /\ stalemate <=> (~in_check /\ get_legal_moves(game) = {})
        /\ ~(stalemate /\ is_in_checkmate(game, Mover))
        /\ game = StalemateFixture => stalemate /\ ~is_in_checkmate(game, Black)

\* A stalemate reached from the standard start.
C10_Witness ==
    /\ line = GameIndex(LoydStalemate)
    /\ idx = Len(LoydStalemate)
    /\ is_in_stalemate(game)

\* The candidates a caller may ask about: both squares on the board, with or
\* without a promotion kind.
Candidates ==
    { Move_new_with_promo(from, to, promo) :
        from \in Coordinate, to \in Coordinate, promo \in {NoPromo} \cup PromoTypes }

\* C11: for every candidate with in-bounds coordinates, move_is_legal answers
\* true exactly when the candidate is an element of get_legal_moves.
C11_MoveIsLegalIffLegal ==
    LET legal == get_legal_moves(game)
    IN  \A candidate \in Candidates :
            move_is_legal(game, candidate) <=> candidate \in legal

\* C12: next_move returns None exactly when get_legal_moves is empty, and
\* otherwise only elements of get_legal_moves of the same state; it never fails.
C12_NextMoveDrawsFromLegalMoves ==
    LET legal == get_legal_moves(game)
        results == next_move(game)
    IN  /\ results # {}
        /\ NoMove \in results <=> legal = {}
        /\ legal = {} => results = {NoMove}
        /\ legal # {} => results \subseteq legal
        /\ ~next_move_panics(game)

\* A state with no legal move (next_move returns None), reached by applying
\* a move next_move could return in the state before.
C12_Witness ==
    /\ idx > 0
    /\ last \in next_move(prev)
    /\ next_move(game) = {NoMove}

\* The letters 'a'..'h' in file order and the digits '1'..'8' in rank order.
FileLetters == << 97, 98, 99, 100, 101, 102, 103, 104 >>
RankDigits == << 49, 50, 51, 52, 53, 54, 55, 56 >>

GivenWellFormedName == given.kind = "name" /\ WellFormedName(given.value)
GivenInBoundsCoordinates == given.kind = "coordinates" /\ within_bounds(given.value)

\* C13: coordinates_from_name maps a well-formed name to the in-bounds pair
\* of its digit's rank (1..8 to 0..7) and its letter's file (a..h to 0..7),
\* and name_from_coordinates maps it back to the same name; an in-bounds
\* coordinate is written as a well-formed name and read back as the same
\* coordinate; (1, 2) is written "c2".
C13_NameRoundTrip ==
    /\ (GivenWellFormedName /\ Len(converted) >= 1) =>
          /\ converted[1].kind = "coordinates"
          /\ within_bounds(converted[1].value)
          /\ RankDigits[converted[1].value[1] + 1] = given.value[2]
          /\ FileLetters[converted[1].value[2] + 1] = given.value[1]
    /\ (GivenWellFormedName /\ Len(converted) >= 2) => converted[2] = given
    /\ (GivenInBoundsCoordinates /\ Len(converted) >= 1) =>
          /\ converted[1].kind = "name"
          /\ WellFormedName(converted[1].value)
    /\ (GivenInBoundsCoordinates /\ Len(converted) >= 2) => converted[2] = given
    /\ (given = [kind |-> "coordinates", value |-> << 1, 2 >>] /\ Len(converted) >= 1) =>
          converted[1].value = Name("c", 2)

\* The name "c2" read as (1, 2) and written back.
C13_Witness ==
    /\ given = [kind |-> "name", value |-> Name("c", 2)]
    /\ Len(converted) = 2
    /\ converted[1] = [kind |-> "coordinates", value |-> << 1, 2 >>]
    /\ converted[2].kind = "name"

WellFormedText(text) ==
    /\ Len(text) = 5
    /\ WellFormedName(SubSeq(text, 1, 2))
    /\ text[3] = 45
    /\ WellFormedName(SubSeq(text, 4, 5))

GivenPlainMove ==
    /\ given.kind = "move"
    /\ within_bounds(given.value.from)
    /\ within_bounds(given.value.to)
    /\ given.value.promo = NoPromo

GivenWellFormedText == given.kind = "text" /\ WellFormedText(given.value)

\* C14: a move with in-bounds squares and no promotion kind is written as a
\* well-formed text that Move::from_str reads back as the same move, and a
\* well-formed text "<from>-<to>" is read as a move that is written back as
\* the same text.
C14_MoveTextRoundTrip ==
    /\ (GivenPlainMove /\ Len(converted) >= 1) =>
          /\ converted[1].kind = "text"
          /\ WellFormedText(converted[1].value)
    /\ (GivenPlainMove /\ Len(converted) >= 2) => converted[2] = given
    /\ (GivenWellFormedText /\ Len(converted) >= 1) =>
          /\ converted[1].kind = "move"
          /\ converted[1].value.promo = NoPromo
    /\ (GivenWellFormedText /\ Len(converted) >= 2) => converted[2] = given

\* The move e2-e4 written as "e2-e4" and read back.
C14_Witness ==
    /\ given = [kind |-> "move", value |-> Move_new(<< 1, 4 >>, << 3, 4 >>)]
    /\ Len(converted) = 2
    /\ converted[1].value = Name("e", 2) \o << 45 >> \o Name("e", 4)
    /\ converted[2].kind = "move"

\* A square name or move text that is not well-formed.
GivenMalformed ==
    \/ given.kind = "name" /\ ~WellFormedName(given.value)
    \/ given.kind = "text" /\ ~WellFormedText(given.value)

\* C16: reading a malformed square name or move text never returns a
\* coordinate or a move with a component outside [0, 8), and leaves the
\* GameState as it was.
C16_MalformedTextIsRejected ==
    (GivenMalformed /\ Len(converted) >= 1) =>
        /\ converted[1].kind = "coordinates" => within_bounds(converted[1].value)
        /\ converted[1].kind = "move" =>
              /\ within_bounds(converted[1].value.from)
              /\ within_bounds(converted[1].value.to)
        /\ game = GameState_new

\* The game being played started from GameState::new().
FromStandardStart == Games[line].start = GameState_new

\* C17: in every state reached from the standard start, a castling right
\* that is true has that side's king on its initial square and a rook of
\* that side on the wing's corner.
C17_RightImpliesKingAndRookHome ==
    FromStandardStart =>
        \A side \in Sides : \A wing \in Wings :
            RightOf(game, side, wing) =>
                /\ piece_at(game.board, << BackRankOf(side), 4 >>) = Piece(side, King)
                /\ piece_at(game.board, << BackRankOf(side), wing.corner >>)
                      = Piece(side, Rook)

\* The pawn moves of the side to move onto an empty square of another file.
EnPassantCaptures ==
    { m \in get_possible_moves(game) :
        /\ piece_at(game.board, m.from).piece_type = Pawn
        /\ m.to[2] # m.from[2]
        /\ piece_at(game.board, m.to) = None }

\* C18: in every state reached from the standard start, en_passant_square is
\* set exactly when the latest make_move was a pawn advancing two ranks; it
\* is then the empty square that pawn skipped (its file, the rank between
\* origin and destination), with the pawn standing directly beyond it. It is
\* None in the initial state and after any other move, and a capture onto an
\* empty square is generated only right after a double step, onto that square.
C18_EnPassantSquare ==
    FromStandardStart =>
        /\ idx = 0 => game.en_passant_square = NoSquare
        /\ game.en_passant_square # NoSquare <=> DoubleStep
        /\ DoubleStep =>
              LET forward == IF other(Mover) = White THEN 1 ELSE -1
              IN  /\ game.en_passant_square = << last.from[1] + forward, last.from[2] >>
                  /\ last.to = << last.from[1] + 2 * forward, last.from[2] >>
                  /\ piece_at(game.board, game.en_passant_square) = None
                  /\ piece_at(game.board, last.to) = Piece(other(Mover), Pawn)
        /\ \A m \in EnPassantCaptures : DoubleStep /\ m.to = game.en_passant_square

\* A state whose en_passant_square was set by the move before the latest one
\* and cleared by the latest one.
C18_Witness ==
    /\ FromStandardStart
    /\ idx > 1
    /\ prev.en_passant_square # NoSquare
    /\ game.en_passant_square = NoSquare

\* C19: in GameState::new() and after every make_move of a legal move, a
\* coordinate is in a side's roster exactly when the grid holds a piece of
\* that side there: the rosters name squares of the board only, share no
\* coordinate and contain no empty square.
C19_SidesAgreeWithGrid ==
    /\ \A s \in Sides : game.board.sides[s] \subseteq Coordinate
    /\ \A c \in Coordinate : \A s \in Sides :
          c \in game.board.sides[s] <=> piece_at(game.board, c).side = s
    /\ game.board.sides[White] \cap game.board.sides[Black] = {}
    /\ \A c \in Coordinate :
          piece_at(game.board, c) = None =>
              c \notin game.board.sides[White] \cup game.board.sides[Black]

\* A state reached by an en-passant capture: the captured pawn stood on a
\* square that is neither the origin nor the destination of the move.
C19_Witness ==
    /\ idx > 0
    /\ piece_at(prev.board, last.from).piece_type = Pawn
    /\ last.to = prev.en_passant_square
    /\ Cardinality(game.board.sides[Mover]) = Cardinality(prev.board.sides[Mover]) - 1

\* The squares holding a king of the side.
KingsOf(g, side) == { c \in Coordinate : piece_at(g.board, c) = Piece(side, King) }

\* C20: in every state reached from the standard start each side has exactly
\* one king, king_location(side) is the square it stands on, and no legal
\* move (no candidate of get_legal_moves at all) lands on a king.
C20_OneKingEachAndCached ==
    FromStandardStart =>
        /\ \A side \in Sides :
              /\ Cardinality(KingsOf(game, side)) = 1
              /\ KingsOf(game, side) = {king_location(game.board, side)}
        /\ \A m \in CandidateMoves(game) : piece_at(game.board, m.to).piece_type # King

\* A state reached from the standard start by a castling move: the king's
\* cached location is the square it landed on.
C20_Witness ==
    /\ FromStandardStart
    /\ idx > 0
    /\ IsCastlingMove(prev, last)
    /\ king_location(game.board, other(Mover)) = last.to
    /\ king_location(prev.board, other(Mover)) = last.from

\* The origin squares that clear each right: a1 e1, h1 e1, a8 e8, h8 e8.
ClearingOrigins ==
    [white_can_castle_queenside |-> { << 0, 0 >>, << 0, 4 >> },
     white_can_castle_kingside |-> { << 0, 7 >>, << 0, 4 >> },
     black_can_castle_queenside |-> { << 7, 0 >>, << 7, 4 >> },
     black_can_castle_kingside |-> { << 7, 7 >>, << 7, 4 >> }]

RightsAfter(ca, from) ==
    [right \in DOMAIN ClearingOrigins |-> ca[right] /\ from \notin ClearingOrigins[right]]

\* C21: make_move changes the castling rights by the origin square only: a
\* move from a1 or e1 clears white queenside, from h1 or e1 white kingside,
\* from a8 or e8 black queenside, from h8 or e8 black kingside; every other
\* right, and all four after a move from any other square, stay as they
\* were, a capture of a rook on its corner included.
C21_RightsChangeByOriginOnly ==
    /\ idx > 0 =>
          game.castling_availability = RightsAfter(prev.castling_availability, last.from)
    /\ \A m \in get_possible_moves(game) \cup get_castling_moves(game) :
          make_move(game, m).castling_availability
              = RightsAfter(game.castling_availability, m.from)

\* A state reached by capturing the rook on h1 from another square: White's
\* kingside right is still held.
C21_Witness ==
    /\ idx > 0
    /\ last.to = << 0, 7 >>
    /\ piece_at(prev.board, last.to) = Piece(White, Rook)
    /\ \A right \in DOMAIN ClearingOrigins : last.from \notin ClearingOrigins[right]
    /\ game.castling_availability = prev.castling_availability
    /\ game.castling_availability.white_can_castle_kingside

\* A pawn moving diagonally onto an empty square.
IsEnPassantMove(g, m) ==
    /\ piece_at(g.board, m.from).piece_type = Pawn
    /\ m.to[2] # m.from[2]
    /\ piece_at(g.board, m.to) = None

\* A move that is neither castling, en passant nor promotion.
Ordinary(g, m) ==
    /\ ~IsCastlingMove(g, m)
    /\ ~IsEnPassantMove(g, m)
    /\ m.promo = NoPromo

\* C22: every legal move (every candidate get_legal_moves selects from)
\* flips side_to_move, so the side to move alternates; such a move that is
\* neither castling, en passant nor promotion empties
\* its origin, puts the mover's piece that stood there on its destination,
\* where no piece of the mover stood, and leaves every other square as it was.
C22_OrdinaryMoveFrame ==
    /\ idx > 0 => game.side_to_move = other(prev.side_to_move)
    /\ \A m \in CandidateMoves(game) :
          LET after == make_move(game, m)
          IN  /\ after.side_to_move = other(game.side_to_move)
              /\ after.side_to_move # game.side_to_move
              /\ Ordinary(game, m) =>
                    /\ piece_at(game.board, m.from).side = Mover
                    /\ piece_at(game.board, m.to).side # Mover
                    /\ piece_at(after.board, m.from) = None
                    /\ piece_at(after.board, m.to) = piece_at(game.board, m.from)
                    /\ \A c \in Coordinate \ {m.from, m.to} :
                          piece_at(after.board, c) = piece_at(game.board, c)

\* A state reached by an ordinary capture.
C22_Witness ==
    /\ idx > 0
    /\ Ordinary(prev, last)
    /\ piece_at(prev.board, last.to).side = Mover
    /\ piece_at(game.board, last.to) = piece_at(prev.board, last.from)
    /\ piece_at(game.board, last.from) = None

Abs(x) == IF x < 0 THEN -x ELSE x
Sign(x) == IF x < 0 THEN -1 ELSE IF x > 0 THEN 1 ELSE 0

\* The piece on `from` attacks `target` under the rules of chess: a pawn one
\* rank forward and one file aside, a knight by its leap, a king next to it,
\* a bishop, rook or queen along its lines with every square between empty.
Attacks(board, from, target) ==
    LET piece == piece_at(board, from)
        dr == target[1] - from[1]
        df == target[2] - from[2]
        far == IF Abs(dr) > Abs(df) THEN Abs(dr) ELSE Abs(df)
        clear == \A k \in 1 .. far - 1 :
                    piece_at(board, << from[1] + k * Sign(dr), from[2] + k * Sign(df) >>) = None
        diagonal == Abs(dr) = Abs(df)
        straight == dr = 0 \/ df = 0
    IN  /\ from # target
        /\ CASE piece.piece_type = Pawn ->
                   dr = (IF piece.side = White THEN 1 ELSE -1) /\ Abs(df) = 1
             [] piece.piece_type = Knight -> {Abs(dr), Abs(df)} = {1, 2}
             [] piece.piece_type = King -> Abs(dr) <= 1 /\ Abs(df) <= 1
             [] piece.piece_type = Bishop -> diagonal /\ clear
             [] piece.piece_type = Rook -> straight /\ clear
             [] piece.piece_type = Queen -> (diagonal \/ straight) /\ clear
             [] OTHER -> FALSE

\* The side's king, found on the grid, is attacked by a piece of the other side.
Attacked(g, side) ==
    \E king \in KingsOf(g, side) :
        \E c \in Coordinate :
            piece_at(g.board, c).side = other(side) /\ Attacks(g.board, c, king)

AtEndOf(moves) == line = GameIndex(moves) /\ idx = Len(moves)

\* C23: is_in_check(side) is true exactly when the side's king is attacked
\* under the rules of chess by a piece of the other side, whoever is to move;
\* in tests::test_check White is in check only after d8-h4; a pawn directly
\* in front of the king gives no check; the pawn on f7 that can promote by
\* taking on g8 gives check to the king on e8.
C23_CheckIffKingAttacked ==
    /\ \A side \in Sides :
          /\ is_in_check(game, side) <=> Attacked(game, side)
          /\ is_in_check([game EXCEPT !.side_to_move = other(@)], side)
                <=> Attacked(game, side)
    /\ (line = GameIndex(QueenCheck) /\ idx \in {3, 5}) => ~is_in_check(game, White)
    /\ (line = GameIndex(QueenCheck) /\ idx = 4) => is_in_check(game, White)
    /\ AtEndOf(PawnInFrontOfKing) =>
          /\ piece_at(game.board, Sq("e", 7)) = Piece(White, Pawn)
          /\ piece_at(game.board, Sq("e", 8)) = Piece(Black, King)
          /\ ~is_in_check(game, Black)
    /\ AtEndOf(PawnCheckOnSeventh) =>
          /\ piece_at(game.board, Sq("f", 7)) = Piece(White, Pawn)
          /\ Move_new_with_promo(Sq("f", 7), Sq("g", 8), Queen)
                \in get_possible_moves_from(game, Sq("f", 7))
          /\ is_in_check(game, Black)

\* The pawn has taken on f7: Black, to move, is in check.
C23_Witness ==
    /\ AtEndOf(PawnCheckOnSeventh)
    /\ Mover = Black
    /\ is_in_check(game, Black)
    /\ Attacks(game.board, Sq("f", 7), Sq("e", 8))

\* The squares holding a piece.
Occupied(g) == { c \in Coordinate : piece_at(g.board, c) # None }

\* C24: for every square holding a bishop, rook or queen (and likewise a
\* knight or king), the pseudo-legal moves are exactly the moves without
\* promotion kind to the squares the piece attacks that hold no piece of its
\* side: along each line the empty squares up to the first occupied one, and
\* that one if it holds an enemy piece, never a square behind it; no
\* pseudo-legal move of any piece lands outside the board or on a piece of
\* the same side.
C24_SlidingMoves ==
    \A c \in Occupied(game) :
        LET piece == piece_at(game.board, c)
            moves == get_possible_moves_from(game, c)
        IN  /\ \A m \in moves :
                  /\ m.from = c
                  /\ within_bounds(m.to)
                  /\ piece_at(game.board, m.to).side # piece.side
            /\ piece.piece_type # Pawn =>
                  moves = { Move_new(c, t) : t \in
                              { u \in Coordinate :
                                  /\ Attacks(game.board, c, u)
                                  /\ piece_at(game.board, u).side # piece.side } }

\* A state after some moves where a bishop, rook or queen of the side to
\* move has a capture, an empty destination and a line closed by its own side.
C24_Witness ==
    /\ idx > 0
    /\ \E c \in game.board.sides[Mover] :
          LET moves == get_possible_moves_from(game, c)
          IN  /\ piece_at(game.board, c).piece_type \in {Bishop, Rook, Queen}
              /\ \E m \in moves : piece_at(game.board, m.to).side = other(Mover)
              /\ \E m \in moves : piece_at(game.board, m.to) = None
              /\ \E d \in QueenDirections :
                    /\ piece_at(game.board, << c[1] + d[1], c[2] + d[2] >>).side = Mover
                    /\ Move_new(c, << c[1] + d[1], c[2] + d[2] >>) \notin moves

\* The squares a pawn on c may move to: one ahead if empty; two ahead from
\* its starting rank (rank 2 for White, rank 7 for Black) if both squares
\* ahead are empty; a forward diagonal holding an enemy piece or being the
\* current en-passant square.
PawnTargets(g, c) ==
    LET piece == piece_at(g.board, c)
        forward == IF piece.side = White THEN 1 ELSE -1
        start == IF piece.side = White THEN 1 ELSE 6
        one == << c[1] + forward, c[2] >>
        two == << c[1] + 2 * forward, c[2] >>
    IN  { t \in {one} : within_bounds(t) /\ piece_at(g.board, t) = None }
        \cup { t \in {two} : /\ c[1] = start
                             /\ within_bounds(t)
                             /\ piece_at(g.board, one) = None
                             /\ piece_at(g.board, t) = None }
        \cup { t \in { << c[1] + forward, c[2] - 1 >>, << c[1] + forward, c[2] + 1 >> } :
                 /\ within_bounds(t)
                 /\ \/ piece_at(g.board, t).side = other(piece.side)
                    \/ t = g.en_passant_square }

PawnSquares(g) == { c \in Coordinate : piece_at(g.board, c).piece_type = Pawn }

\* C25: for every pawn, the destinations of its pseudo-legal moves are
\* exactly: the square ahead if empty, the square two ahead from the starting
\* rank if both are empty, and a forward diagonal that holds an enemy piece
\* or is the current en-passant square; no pawn move goes sideways, backward,
\* more than two ranks, or straight onto an occupied square.
C25_PawnMoves ==
    \A c \in PawnSquares(game) :
        LET piece == piece_at(game.board, c)
            forward == IF piece.side = White THEN 1 ELSE -1
            moves == get_possible_moves_from(game, c)
        IN  /\ { m.to : m \in moves } = PawnTargets(game, c)
            /\ \A m \in moves :
                  /\ m.from = c
                  /\ (m.to[1] - c[1]) * forward \in {1, 2}
                  /\ Abs(m.to[2] - c[2]) <= 1
                  /\ (m.to[1] - c[1]) * forward = 2 => m.to[2] = c[2]
                  /\ m.to[2] = c[2] => piece_at(game.board, m.to) = None

\* A state after some moves where a pawn of the side to move may step
\* ahead or capture, and another may take two steps.
C25_Witness ==
    /\ idx > 0
    /\ \E c \in PawnSquares(game) \cap game.board.sides[Mover] :
          LET moves == get_possible_moves_from(game, c)
          IN  /\ \E m \in moves : m.to[2] = c[2]
              /\ \E m \in moves : piece_at(game.board, m.to).side = other(Mover)
    /\ \E m \in get_possible_moves(game) :
          /\ piece_at(game.board, m.from).piece_type = Pawn
          /\ Abs(m.to[1] - m.from[1]) = 2

\* C26: no pawn of either side stands on rank 1 or rank 8, in the states
\* reached from the standard start and in the positions the tests set up, so
\* the square one step ahead of every pawn, which the pawn generator reads
\* without a bounds check, is on the board.
C26_NoPawnOnLastRanks ==
    \A c \in PawnSquares(game) :
        /\ c[1] \in 1 .. 6
        /\ within_bounds(<< c[1] + 1, c[2] >>)
        /\ within_bounds(<< c[1] - 1, c[2] >>)
        /\ ~piece_at_panics(<< c[1] + (IF piece_at(game.board, c).side = White THEN 1 ELSE -1),
                               c[2] >>)
        /\ ~get_possible_moves_from_panics(game, c)

\* A state reached from the standard start by a promotion: the pawn that
\* reached the last rank is replaced.
C26_Witness ==
    /\ FromStandardStart
    /\ idx > 0
    /\ piece_at(prev.board, last.from).piece_type = Pawn
    /\ last.to[1] \in {0, 7}
    /\ piece_at(game.board, last.to).piece_type = last.promo
    /\ PawnSquares(game) # {}

\* The number of pieces of a side on the grid.
PieceCount(g, side) ==
    Cardinality({ c \in Coordinate : piece_at(g.board, c).side = side })

\* C27: every legal move (every candidate get_legal_moves selects from)
\* leaves the mover's number of pieces as it was and
\* removes at most one piece, of the side that did not move (on the grid and
\* in the rosters alike); along every game played the total never increases
\* and never exceeds the 32 pieces of the standard start.
C27_PieceCounts ==
    /\ PieceCount(game, White) + PieceCount(game, Black) <= 32
    /\ idx > 0 =>
          /\ PieceCount(game, other(Mover)) = PieceCount(prev, other(Mover))
          /\ PieceCount(prev, Mover) - PieceCount(game, Mover) \in {0, 1}
    /\ \A m \in CandidateMoves(game) :
          LET after == make_move(game, m)
          IN  /\ PieceCount(after, Mover) = PieceCount(game, Mover)
              /\ PieceCount(game, other(Mover)) - PieceCount(after, other(Mover)) \in {0, 1}
              /\ Cardinality(after.board.sides[Mover])
                    = Cardinality(game.board.sides[Mover])
              /\ Cardinality(game.board.sides[other(Mover)])
                    - Cardinality(after.board.sides[other(Mover)]) \in {0, 1}

\* A state reached from the standard start by a pawn that took a piece and
\* was promoted: the mover has as many pieces as before, the other side one less.
C27_Witness ==
    /\ FromStandardStart
    /\ idx > 0
    /\ last.promo # NoPromo
    /\ PieceCount(game, other(Mover)) = PieceCount(prev, other(Mover))
    /\ PieceCount(game, Mover) = PieceCount(prev, Mover) - 1

====
